---- MODULE Spec2Model ----
(***************************************************************************)
(* Model of biglinux-snapshot-restore.py: the restore orchestration of     *)
(* SnapshotRestoreApp (one interactive GTK thread, one background worker   *)
(* thread per restore attempt, GLib's idle-callback queue between them)    *)
(* and the helpers it calls (BtrfsManager, TimeshiftManager, GrubManager). *)
(*                                                                         *)
(* Texts (messages, captured output, file content) are sequences of        *)
(* fragments; formatting a text into a template is concatenation.          *)
(* An external command is an input of the step that runs it: the step      *)
(* draws what the command did (could not be launched, or exited with a     *)
(* code and captured output) from a small set.                             *)
(* Purely presentational calls (css classes, progress_bar.pulse, window    *)
(* layout) are not part of the state.                                      *)
(***************************************************************************)
EXTENDS Integers, Sequences, FiniteSets, TLC

VARIABLES
    app,              \* "constructed" | "active" | "quit" | "rebooted"
    cmdline,          \* content of /proc/cmdline, or Unreadable
    snapshot_info,    \* self.snapshot_info: None or the parsed record
    window,           \* self.window is not None
    dialog,           \* the presented Adw.AlertDialog: NoDialog or [heading, body]
    is_restoring,     \* self.is_restoring
    is_restored,      \* self.is_restored
    button_sensitive, \* restore_button sensitivity
    button_label,     \* restore_button label
    progress_visible, \* progress_bar visibility
    status_visible,   \* status_label visibility
    status_text,      \* status_label text
    workers,          \* the restore threads started so far, in start order
    idle_queue,       \* GLib idle sources not yet dispatched, FIFO
    cmds,             \* external commands run by the current attempt, in order
    reboots,          \* number of times the reboot command was invoked
    console,          \* the lines printed to standard output
    posted,           \* the callbacks the current attempt gave to idle_add, in order
    delivered,        \* the callbacks of the current attempt dispatched so far, in order
    last_op           \* the handler or worker statement executed last

vars == <<app, cmdline, snapshot_info, window, dialog, is_restoring, is_restored,
          button_sensitive, button_label, progress_visible, status_visible,
          status_text, workers, idle_queue, cmds, reboots, console, posted, delivered,
          last_op>>

ui == <<button_sensitive, button_label, progress_visible, status_visible, status_text>>

(***************************************************************************)
(* Bounds of the model.                                                    *)
(***************************************************************************)
MaxAttempts == 3
MaxReboots == 2

(***************************************************************************)
(* Texts.                                                                  *)
(***************************************************************************)
Contains(text, frag) == \E i \in 1..Len(text) : text[i] = frag

Format(template, text) == <<template>> \o text

MsgChecking == <<"Checking system state...">>
MsgStarting == <<"Starting Timeshift restoration...">>
MsgTimeshiftCompleted == <<"Timeshift restoration completed">>
MsgConsistency == <<"Restoration completed. Checking system consistency...">>
MsgRegenerating == <<"Regenerating GRUB configuration...">>
MsgGrubFailed == <<"GRUB configuration regeneration failed">>
MsgSuccess == <<"Restoration completed successfully! Please reboot the system.">>

\* the two lines do_activate prints when no snapshot boot is detected
MsgNotDetected ==
    <<"Snapshot not detected: This application only runs when booted from a Timeshift snapshot.",
      "Did you really boot into the snapshot?">>

\* str(e) of the FileNotFoundError that subprocess raises when the program
\* cannot be launched.
LaunchError(prog) == <<"[Errno 2] No such file or directory: ", prog>>

None == [name |-> <<>>, path |-> <<>>, date |-> <<>>, time |-> <<>>, parsed |-> FALSE]
NoDialog == [heading |-> <<>>, body |-> <<>>, shown |-> FALSE]

(***************************************************************************)
(* SnapshotDetector.  The kernel command line is a sequence of characters. *)
(***************************************************************************)
Unreadable == <<"<unreadable>">>

Whitespace == {" ", "\t", "\n"}

Digits == <<"0", "1", "2", "3", "4", "5", "6", "7", "8", "9">>

IsDigit(c) == \E i \in 1..10 : Digits[i] = c

DigitVal(c) == (CHOOSE i \in 1..10 : Digits[i] = c) - 1

RECURSIVE NumVal(_)
NumVal(s) == IF s = <<>> THEN 0
             ELSE 10 * NumVal(SubSeq(s, 1, Len(s) - 1)) + DigitVal(s[Len(s)])

RECURSIVE Decimal(_)
Decimal(n) == IF n < 10 THEN <<Digits[n + 1]>>
              ELSE Decimal(n \div 10) \o <<Digits[(n % 10) + 1]>>

\* str.strip(): leading and trailing whitespace removed
RECURSIVE strip(_)
strip(s) == IF s = <<>> THEN s
            ELSE IF s[1] \in Whitespace THEN strip(Tail(s))
            ELSE IF s[Len(s)] \in Whitespace THEN strip(SubSeq(s, 1, Len(s) - 1))
            ELSE s

MatchAt(s, i, pat) ==
    /\ i + Len(pat) - 1 <= Len(s)
    /\ \A k \in 1..Len(pat) : s[i + k - 1] = pat[k]

\* 'pat' in s
HasSubstring(s, pat) == \E i \in 1..Len(s) : MatchAt(s, i, pat)

\* last index of the longest run of characters outside stop that starts at j
RunEnd(s, j, stop) ==
    CHOOSE e \in (j - 1)..Len(s) :
        /\ \A m \in j..e : s[m] \notin stop
        /\ (e = Len(s) \/ s[e + 1] \in stop)

\* re.search(pat + '([^stop]+)', s): the leftmost match's group, or no match
re_search(s, pat, stop) ==
    LET starts == {i \in 1..Len(s) : /\ MatchAt(s, i, pat)
                                     /\ i + Len(pat) <= Len(s)
                                     /\ s[i + Len(pat)] \notin stop}
    IN  IF starts = {} THEN [matched |-> FALSE, group |-> <<>>]
        ELSE LET i == CHOOSE x \in starts : \A y \in starts : x <= y
                 j == i + Len(pat)
             IN  [matched |-> TRUE, group |-> SubSeq(s, j, RunEnd(s, j, stop))]

\* str.split(sep): the pieces between the occurrences of the character sep
RECURSIVE split(_, _)
split(s, sep) ==
    IF \A i \in 1..Len(s) : s[i] # sep THEN <<s>>
    ELSE LET i == CHOOSE x \in 1..Len(s) :
                      s[x] = sep /\ \A y \in 1..(x - 1) : s[y] # sep
         IN  <<SubSeq(s, 1, i - 1)>> \o split(SubSeq(s, i + 1, Len(s)), sep)

\* str.replace(old, new) for single characters
replace(s, old, new) == [i \in 1..Len(s) |-> IF s[i] = old THEN new ELSE s[i]]

SubvolKey == <<"s", "u", "b", "v", "o", "l", "=">>

SnapshotsMarker == <<"t", "i", "m", "e", "s", "h", "i", "f", "t", "-", "b", "t", "r", "f", "s",
                     "/", "s", "n", "a", "p", "s", "h", "o", "t", "s">>

DefaultTime == <<"0", "0", "-", "0", "0", "-", "0", "0">>

DaysInMonth(y, m) ==
    IF m \in {4, 6, 9, 11} THEN 30
    ELSE IF m # 2 THEN 31
    ELSE IF (y % 4 = 0 /\ y % 100 # 0) \/ y % 400 = 0 THEN 29 ELSE 28

\* datetime.strptime(s, '%Y-%m-%d'): %Y is four digits, %m and %d are one or
\* two digits in range; the date must exist.  ok = FALSE is ValueError.
strptime(s) ==
    LET p == split(s, "-")
        digits(t) == \A i \in 1..Len(t) : IsDigit(t[i])
        shaped == /\ Len(p) = 3
                  /\ Len(p[1]) = 4 /\ digits(p[1])
                  /\ Len(p[2]) \in {1, 2} /\ digits(p[2])
                  /\ Len(p[3]) \in {1, 2} /\ digits(p[3])
    IN  IF ~shaped THEN [ok |-> FALSE, y |-> 0, m |-> 0, d |-> 0]
        ELSE LET y == NumVal(p[1])
                 m == NumVal(p[2])
                 d == NumVal(p[3])
             IN  [ok |-> /\ y >= 1
                         /\ m \in 1..12
                         /\ d >= 1 /\ d <= DaysInMonth(y, m),
                  y |-> y, m |-> m, d |-> d]

Pad2(n) == <<Digits[(n \div 10) + 1], Digits[(n % 10) + 1]>>

strftime_month_first(t) == Pad2(t.m) \o <<"/">> \o Pad2(t.d) \o <<"/">> \o Decimal(t.y)

\* date.strftime('%d/%m/%Y')
strftime(t) == Pad2(t.d) \o <<"/">> \o Pad2(t.m) \o <<"/">> \o Decimal(t.y)

is_in_snapshot(cl) ==
    IF cl = Unreadable THEN FALSE
    ELSE HasSubstring(strip(cl), SnapshotsMarker)

get_snapshot_info(cl) ==
    IF cl = Unreadable THEN None
    ELSE LET line == strip(cl)
             subvol_match == re_search(line, SubvolKey, Whitespace)
             subvol_path == IF subvol_match.matched THEN subvol_match.group ELSE <<>>
             snapshot_match == re_search(line, SnapshotsMarker \o <<"/">>,
                                         Whitespace \cup {"/", "@"})
         IN  IF ~snapshot_match.matched THEN None
             ELSE LET snapshot_name == snapshot_match.group
                      parts == split(snapshot_name, "_")
                      date_part == parts[1]
                      time_part == IF Len(parts) > 1 THEN parts[2] ELSE DefaultTime
                      date_obj == strptime(date_part)
                  IN  IF ~date_obj.ok THEN None
                      ELSE [name |-> snapshot_name,
                            path |-> subvol_path,
                            date |-> strftime(date_obj),
                            time |-> replace(time_part, "-", ":"),
                            parsed |-> TRUE]

(***************************************************************************)
(* What the environment can do.  A ProcessResult of a command that could   *)
(* not be launched has launched = FALSE (subprocess raises                 *)
(* FileNotFoundError); otherwise rc, out and err are the exit code and the *)
(* captured standard output and standard error.                            *)
(***************************************************************************)
NotLaunched == [launched |-> FALSE, rc |-> -1, out |-> <<>>, err |-> <<>>]

Exited(rc, out, err) == [launched |-> TRUE, rc |-> rc, out |-> out, err |-> err]

\* btrfs subvolume list /: the output is a sequence of lines (the pieces
\* between newlines, so an output ending in a newline has an empty last
\* line); a line is a sequence of fragments.
ListingWithRoot == <<<<"ID 256 gen 10 top level 5 ", "path @">>, <<>>>>
ListingHomeLast == <<<<"ID 257 gen 10 top level 5 ", "path @", "home">>>>
BtrfsResults ==
    { NotLaunched,
      Exited(1, <<>>, <<"ERROR: not a btrfs filesystem">>),
      Exited(0, ListingWithRoot, <<>>),
      Exited(0, ListingHomeLast, <<>>) }

KillResults ==
    { NotLaunched,
      Exited(1, <<>>, <<"timeshift-gtk: no process found">>),
      Exited(0, <<>>, <<>>) }

TimeshiftStdout == <<"Restoring snapshot...">>
TimeshiftStderr == <<"E: Snapshot not found">>
TimeshiftExitCodes == {-9, 0, 1}
TimeshiftResults ==
    {NotLaunched} \cup {Exited(rc, TimeshiftStdout, TimeshiftStderr) : rc \in TimeshiftExitCodes}

GrubStdout == <<"done">>
GrubStderr == <<"grub-probe: error: cannot find a device for /">>
GrubResults ==
    { NotLaunched,
      Exited(1, <<>>, GrubStderr),
      Exited(0, GrubStdout, <<>>) }

RebootResults ==
    { NotLaunched,
      Exited(1, <<>>, <<"Failed to talk to init daemon">>),
      Exited(0, <<>>, <<>>) }

\* /boot/grub/grub.cfg as open() finds it
SubvolMarker == "rootflags=subvol="
CfgFiles ==
    { [readable |-> FALSE, content |-> <<>>],
      [readable |-> TRUE, content |-> <<"linux /boot/vmlinuz root=UUID=1 rw">>],
      [readable |-> TRUE, content |-> <<"linux /boot/vmlinuz root=UUID=1 rw ", SubvolMarker, "@">>] }

\* one entry of cmds
Cmd(prog, w, arg, res) ==
    [prog |-> prog, w |-> w, arg |-> arg, launched |-> res.launched,
     rc |-> res.rc, out |-> res.out, err |-> res.err]

(***************************************************************************)
(* BtrfsManager, GrubManager, TimeshiftManager: what each call makes of    *)
(* the ProcessResult.  raised = TRUE is an exception leaving the call,     *)
(* with exc = str(e).                                                      *)
(***************************************************************************)
Returned(v) == [raised |-> FALSE, value |-> v, exc |-> <<>>]

Raised(e) == [raised |-> TRUE, value |-> <<>>, exc |-> e]

\* subprocess.run(..., check=True) inside try/except CalledProcessError:
\* a non-zero exit is caught, a launch failure is not
list_subvolumes(res) ==
    IF ~res.launched THEN Raised(LaunchError("'btrfs'"))
    ELSE IF res.rc # 0 THEN Returned(<<<<>>>>)
    ELSE Returned(res.out)

\* 'path @\n' in subvolumes or 'path @' in subvolumes.split('\n')[-1]
check_root_subvolume_exists(subvolumes) ==
    \/ \E i \in 1..(Len(subvolumes) - 1) :
          /\ subvolumes[i] # <<>>
          /\ subvolumes[i][Len(subvolumes[i])] = "path @"
    \/ Contains(subvolumes[Len(subvolumes)], "path @")

regenerate_config(res) ==
    IF ~res.launched THEN Raised(LaunchError("'grub-mkconfig'"))
    ELSE IF res.rc # 0 THEN Returned([ok |-> FALSE, text |-> res.err])
    ELSE Returned([ok |-> TRUE, text |-> res.out])

verify_config(file) ==
    IF ~file.readable THEN FALSE
    ELSE Contains(file.content, SubvolMarker)

restore_result_stdout_on_failure(res) ==
    [success |-> res.rc = 0, output |-> res.out]

restore_result_always_success(res) ==
    [success |-> TRUE, output |-> res.out]

\* restore_snapshot, lines 162-167: the pair returned for a process that ran
restore_result(res) ==
    IF res.rc = 0 THEN [success |-> TRUE, output |-> res.out]
    ELSE [success |-> FALSE, output |-> res.err]

\* restore_snapshot, lines 169-170: any exception inside becomes (False, str(e))
restore_exception(e) == [success |-> FALSE, output |-> e]

\* restore_snapshot, line 151: killall without check=True, inside the try
kill_step(res) ==
    IF ~res.launched THEN Raised(LaunchError("'killall'"))
    ELSE Returned(<<>>)

(***************************************************************************)
(* /proc/cmdline of the boots the model starts from.                       *)
(***************************************************************************)
Name1 == <<"2", "0", "2", "5", "-", "0", "8", "-", "1", "1", "_",
           "2", "3", "-", "0", "0", "-", "0", "0">>
Name2 == <<"2", "0", "2", "4", "-", "0", "2", "-", "2", "9", "_",
           "0", "7", "-", "0", "5", "-", "0", "0">>
BadName == <<"n", "o", "t", "a", "d", "a", "t", "e", "_",
             "2", "3", "-", "0", "0", "-", "0", "0">>
Prefix == <<"r", "w", " ", "r", "o", "o", "t", "f", "l", "a", "g", "s", "=">> \o SubvolKey
Suffix == <<" ", "q", "u", "i", "e", "t", "\n">>

SnapshotBoot(name) == Prefix \o SnapshotsMarker \o <<"/">> \o name \o <<"/", "@">> \o Suffix

CmdLines ==
    { SnapshotBoot(Name1),
      SnapshotBoot(Name2),
      SnapshotBoot(BadName),
      Prefix \o <<"@">> \o Suffix,
      Unreadable }

(***************************************************************************)
(* Command lines for get_snapshot_info alone: the two parameters of the    *)
(* documented example in both orders, with other text before, between and  *)
(* after them, and boots of snapshots whose names carry other date tokens. *)
(***************************************************************************)
Path42 ==
    <<"/", "@", "/", ".", "s", "n", "a", "p", "s", "h", "o", "t", "s", "/", "4", "2",
    "/", "s", "n", "a", "p", "s", "h", "o", "t">>

SnapshotRef == SnapshotsMarker \o <<"/">> \o Name1

SubvolRef == SubvolKey \o Path42

LeadPlain ==
    <<"r", "w", " ">>

LeadSubvol ==
    <<"r", "o", "o", "t", "f", "l", "a", "g", "s", "=", "s", "u", "b", "v", "o", "l",
    "=", "@", " ">>

LeadSnapshot == <<"x", "=">> \o SnapshotsMarker \o <<"/">> \o Name2 \o <<" ">>

Leads == {<<>>, LeadPlain, LeadSubvol, LeadSnapshot}

MidQuiet ==
    <<" ", "q", "u", "i", "e", "t", " ">>

Mids == {<<" ">>, MidQuiet, <<"/", "@", " ">>, <<"X", " ">>}

TrailQuiet ==
    <<" ", "q", "u", "i", "e", "t", "\n">>

TrailSub ==
    <<"/", "@", " ", "r", "o", "\n">>

TrailMore ==
    <<"_", "x", "\n">>

Trails == {<<>>, <<"\n">>, TrailQuiet, TrailSub, TrailMore}

ExampleLines ==
    {lead \o a \o mid \o b \o trail :
        lead \in Leads, mid \in Mids, trail \in Trails,
        a \in {SnapshotRef, SubvolRef}, b \in {SnapshotRef, SubvolRef}}

NameShortDate ==
    <<"2", "0", "2", "5", "-", "8", "-", "1", "_", "2", "3", "-", "0", "0", "-", "0",
    "0">>

NameNoTime ==
    <<"2", "0", "2", "5", "-", "0", "8", "-", "1", "1">>

NameNoSuchDay ==
    <<"2", "0", "2", "5", "-", "0", "2", "-", "3", "0", "_", "2", "3", "-", "0", "0",
    "-", "0", "0">>

NameShortYear ==
    <<"2", "5", "-", "0", "8", "-", "1", "1", "_", "2", "3", "-", "0", "0", "-", "0",
    "0">>

NameMonth13 ==
    <<"2", "0", "2", "5", "-", "1", "3", "-", "0", "1", "_", "2", "3", "-", "0", "0",
    "-", "0", "0">>

NameThreeParts ==
    <<"2", "0", "2", "5", "-", "0", "8", "-", "1", "1", "_", "2", "3", "-", "0", "0",
    "-", "0", "0", "_", "w", "e", "e", "k", "l", "y">>

NameYearZero ==
    <<"0", "0", "0", "0", "-", "0", "1", "-", "0", "1", "_", "0", "0", "-", "0", "0",
    "-", "0", "0">>

NameSlashes ==
    <<"2", "0", "2", "5", ".", "0", "8", ".", "1", "1", "_", "2", "3", "-", "0", "0",
    "-", "0", "0">>

DatedNames ==
    {Name1, Name2, BadName, NameShortDate, NameNoTime, NameNoSuchDay, NameShortYear,
     NameMonth13, NameThreeParts, NameYearZero, NameSlashes}

ParseLines ==
    ExampleLines \cup {SnapshotBoot(n) : n \in DatedNames} \cup CmdLines

(***************************************************************************)
(* The restore threads.                                                    *)
(***************************************************************************)
NewThread ==
    [pc |-> "progress_checking",
     pre_restore_has_root |-> FALSE, post_restore_has_root |-> FALSE,
     success |-> FALSE, output |-> <<>>,
     grub_success |-> FALSE, grub_output |-> <<>>,
     verified |-> FALSE, exc |-> <<>>]

\* a thread whose target returned: its locals are gone
Finished == [NewThread EXCEPT !.pc = "done"]

Alive(w) == workers[w].pc # "done"

LiveThreads == {w \in DOMAIN workers : Alive(w)}

\* GLib.idle_add(fn, arg) from thread w
Callback(fn, arg, w) == [fn |-> fn, arg |-> arg, w |-> w]

(***************************************************************************)
(* Initial state: SnapshotRestoreApp.__init__, before activation.          *)
(***************************************************************************)
Constructed ==
    /\ app = "constructed"
    /\ snapshot_info = None
    /\ window = FALSE
    /\ dialog = NoDialog
    /\ is_restoring = FALSE
    /\ is_restored = FALSE
    /\ button_sensitive = FALSE
    /\ button_label = <<>>
    /\ progress_visible = FALSE
    /\ status_visible = FALSE
    /\ status_text = <<>>
    /\ workers = <<>>
    /\ idle_queue = <<>>
    /\ cmds = <<>>
    /\ reboots = 0
    /\ console = <<>>
    /\ posted = <<>>
    /\ delivered = <<>>
    /\ last_op = "__init__"

Init ==
    /\ cmdline \in CmdLines
    /\ Constructed

(***************************************************************************)
(* Handlers of the interactive thread.                                     *)
(***************************************************************************)
\* self.quit()
quit ==
    /\ app' = "quit"
    /\ dialog' = NoDialog

\* show_error_dialog: presented on the window when there is one; without a
\* window the application quits at once
show_error_dialog(title, message) ==
    IF window
    THEN /\ dialog' = [heading |-> title, body |-> message, shown |-> TRUE]
         /\ UNCHANGED app
    ELSE quit

\* create_main_window: the widgets in their initial state
create_main_window ==
    /\ window' = TRUE
    /\ button_sensitive' = TRUE
    /\ button_label' = <<"Restore system to this snapshot">>
    /\ progress_visible' = FALSE
    /\ status_visible' = FALSE
    /\ status_text' = <<>>

do_activate ==
    /\ app = "constructed"
    /\ last_op' = "do_activate"
    /\ UNCHANGED <<cmdline, is_restoring, is_restored, workers, idle_queue, cmds, reboots,
                   posted, delivered>>
    /\ IF ~is_in_snapshot(cmdline)
       THEN /\ console' = console \o MsgNotDetected
            /\ quit
            /\ UNCHANGED <<snapshot_info, window, ui>>
       ELSE /\ snapshot_info' = get_snapshot_info(cmdline)
            /\ UNCHANGED console
            /\ IF ~snapshot_info'.parsed
               THEN /\ show_error_dialog(<<"Error">>, <<"Could not parse snapshot information">>)
                    /\ UNCHANGED <<window, ui>>
               ELSE /\ create_main_window
                    /\ app' = "active"
                    /\ UNCHANGED dialog

_on_close_clicked ==
    /\ app = "active"
    /\ window
    /\ quit
    /\ last_op' = "_on_close_clicked"
    /\ UNCHANGED <<cmdline, snapshot_info, window, is_restoring, is_restored, ui,
                   workers, idle_queue, cmds, reboots, console, posted, delivered>>

\* the lambda connected to the dialog's "response" signal
dialog_response ==
    /\ app = "active"
    /\ dialog.shown
    /\ quit
    /\ last_op' = "dialog_response"
    /\ UNCHANGED <<cmdline, snapshot_info, window, is_restoring, is_restored, ui,
                   workers, idle_queue, cmds, reboots, console, posted, delivered>>

\* restore_system past its guard, lines 355-366
start_restore ==
    /\ Len(workers) < MaxAttempts
    /\ is_restoring' = TRUE
    /\ button_sensitive' = FALSE
    /\ button_label' = <<"Restoring...">>
    /\ progress_visible' = TRUE
    /\ status_visible' = TRUE
    /\ workers' = Append(workers, NewThread)
    /\ cmds' = <<>>
    /\ posted' = <<>>
    /\ delivered' = <<>>
    /\ UNCHANGED <<app, dialog, is_restored, status_text, idle_queue, reboots>>

restore_system_unguarded == start_restore

restore_system ==
    IF is_restoring
    THEN UNCHANGED <<app, dialog, is_restoring, is_restored, ui, workers, idle_queue,
                     cmds, reboots, posted, delivered>>
    ELSE start_restore

\* str(e) of what subprocess.run(['reboot'], check=True) raises
RebootError(res) ==
    IF ~res.launched THEN LaunchError("'reboot'")
    ELSE <<"Command '['reboot']' returned non-zero exit status ">> \o Decimal(res.rc) \o <<".">>

\* a reboot command that exits 0 takes the machine, and the process, down
reboot_system ==
    /\ reboots < MaxReboots
    /\ reboots' = reboots + 1
    /\ \E res \in RebootResults :
          IF res.launched /\ res.rc = 0
          THEN /\ app' = "rebooted"
               /\ UNCHANGED dialog
          ELSE show_error_dialog(<<"Reboot Error">>,
                                 Format("Could not restart system: ", RebootError(res)))
    /\ UNCHANGED <<is_restoring, is_restored, ui, workers, idle_queue, cmds, posted,
                   delivered>>

on_restore_clicked_always_restore ==
    /\ app = "active"
    /\ window
    /\ last_op' = "on_restore_clicked"
    /\ UNCHANGED <<cmdline, snapshot_info, window, console>>
    /\ restore_system

on_restore_clicked ==
    /\ app = "active"
    /\ window
    /\ last_op' = "on_restore_clicked"
    /\ UNCHANGED <<cmdline, snapshot_info, window, console>>
    /\ IF is_restored THEN reboot_system ELSE restore_system

(***************************************************************************)
(* _restore_thread, one statement at a time.  Thread w runs while the      *)
(* application does; it is a daemon thread and ends with the process.      *)
(***************************************************************************)
Running_clearing_is_restoring(w, pc) ==
    /\ app = "active"
    /\ w \in DOMAIN workers
    /\ workers[w].pc = pc
    /\ last_op' = "_restore_thread"
    /\ is_restoring' = FALSE
    /\ UNCHANGED <<app, cmdline, snapshot_info, window, dialog, is_restored,
                   ui, reboots, console, delivered>>

\* a statement of _restore_thread (or of a manager it calls) executed by the
\* thread w: it touches nothing of the application but the queue of idle
\* callbacks
Running(w, pc) ==
    /\ app = "active"
    /\ w \in DOMAIN workers
    /\ workers[w].pc = pc
    /\ last_op' = "_restore_thread"
    /\ UNCHANGED <<app, cmdline, snapshot_info, window, dialog, is_restoring, is_restored,
                   ui, reboots, console, delivered>>

Goto(w, pc) == workers' = [workers EXCEPT ![w].pc = pc]

update_progress_front(w, message) ==
    /\ idle_queue' = <<Callback("_update_status", message, w)>> \o idle_queue
    /\ posted' = Append(posted, Callback("_update_status", message, w))

\* update_progress(message): GLib.idle_add(self._update_status, message)
update_progress(w, message) ==
    /\ idle_queue' = Append(idle_queue, Callback("_update_status", message, w))
    /\ posted' = Append(posted, Callback("_update_status", message, w))

\* the last statement of the thread: the terminal idle_add, after which the
\* target returns
Finish(w, callbacks) ==
    /\ idle_queue' = idle_queue \o callbacks
    /\ posted' = posted \o callbacks
    /\ workers' = [workers EXCEPT ![w] = Finished]

\* lines 403-404
except_handler_silent(w, e) == <<>>

except_handler(w, e) == <<Callback("_restoration_failed", e, w)>>

restore_failed_then_progress(w, output) ==
    <<Callback("_restoration_failed", Format("Timeshift restoration failed: ", output), w),
      Callback("_update_status", MsgConsistency, w)>>

\* lines 399-401
restore_failed(w, output) ==
    <<Callback("_restoration_failed", Format("Timeshift restoration failed: ", output), w)>>

\* lines 394-398
grub_outcome_ignoring_verify(w, grub_success, verified) ==
    IF grub_success
    THEN <<Callback("_restoration_completed", <<>>, w)>>
    ELSE <<Callback("_restoration_failed", MsgGrubFailed, w)>>

grub_outcome(w, grub_success, verified) ==
    IF grub_success /\ verified
    THEN <<Callback("_restoration_completed", <<>>, w)>>
    ELSE <<Callback("_restoration_failed", MsgGrubFailed, w)>>

\* line 378
ProgressChecking(w) ==
    /\ Running(w, "progress_checking")
    /\ update_progress(w, MsgChecking)
    /\ Goto(w, "pre_list")
    /\ UNCHANGED cmds

\* line 379
PreList(w) ==
    /\ Running(w, "pre_list")
    /\ \E res \in BtrfsResults :
          LET r == list_subvolumes(res)
          IN  /\ cmds' = Append(cmds, Cmd("btrfs", w, <<>>, res))
              /\ workers' = IF r.raised
                            THEN [workers EXCEPT ![w].pc = "except", ![w].exc = r.exc]
                            ELSE [workers EXCEPT
                                    ![w].pc = "ts_progress",
                                    ![w].pre_restore_has_root =
                                        check_root_subvolume_exists(r.value)]
    /\ UNCHANGED <<idle_queue, posted>>

\* restore_snapshot, lines 147-148
TsProgress(w) ==
    /\ Running(w, "ts_progress")
    /\ update_progress(w, MsgStarting)
    /\ Goto(w, "ts_kill")
    /\ UNCHANGED cmds

\* restore_snapshot, line 151
TsKill(w) ==
    /\ Running(w, "ts_kill")
    /\ \E res \in KillResults :
          LET r == kill_step(res)
              ret == restore_exception(r.exc)
          IN  /\ cmds' = Append(cmds, Cmd("killall", w, <<>>, res))
              /\ workers' = IF r.raised
                            THEN [workers EXCEPT ![w].pc = "branch",
                                                 ![w].success = ret.success,
                                                 ![w].output = ret.output]
                            ELSE [workers EXCEPT ![w].pc = "ts_restore"]
    /\ UNCHANGED <<idle_queue, posted>>

restore_target_path(info) == info.path

\* line 382: the snapshot that restore_snapshot is asked for, which line 154
\* puts after --snapshot
restore_target(info) == info.name

\* restore_snapshot, lines 154-162 and 166-170
TsRestore(w) ==
    /\ Running(w, "ts_restore")
    /\ \E res \in TimeshiftResults :
          LET ret == IF res.launched THEN restore_result(res)
                     ELSE restore_exception(LaunchError("'timeshift'"))
          IN  /\ cmds' = Append(cmds, Cmd("timeshift", w, restore_target(snapshot_info), res))
              /\ workers' = [workers EXCEPT
                               ![w].pc = IF ret.success THEN "ts_completed" ELSE "branch",
                               ![w].success = ret.success,
                               ![w].output = ret.output]
    /\ UNCHANGED <<idle_queue, posted>>

\* restore_snapshot, lines 163-165
TsCompleted(w) ==
    /\ Running(w, "ts_completed")
    /\ update_progress(w, MsgTimeshiftCompleted)
    /\ Goto(w, "branch")
    /\ UNCHANGED cmds

\* lines 384-385 and 399-401
Branch(w) ==
    /\ Running(w, "branch")
    /\ IF workers[w].success
       THEN /\ update_progress(w, MsgConsistency)
            /\ Goto(w, "post_list")
       ELSE Finish(w, restore_failed(w, workers[w].output))
    /\ UNCHANGED cmds

\* line 388
PostList(w) ==
    /\ Running(w, "post_list")
    /\ \E res \in BtrfsResults :
          LET r == list_subvolumes(res)
          IN  /\ cmds' = Append(cmds, Cmd("btrfs", w, <<>>, res))
              /\ workers' = IF r.raised
                            THEN [workers EXCEPT ![w].pc = "except", ![w].exc = r.exc]
                            ELSE [workers EXCEPT
                                    ![w].pc = "grub_progress",
                                    ![w].post_restore_has_root =
                                        check_root_subvolume_exists(r.value)]
    /\ UNCHANGED <<idle_queue, posted>>

\* line 391
GrubProgress(w) ==
    /\ Running(w, "grub_progress")
    /\ update_progress(w, MsgRegenerating)
    /\ Goto(w, "grub_regen")
    /\ UNCHANGED cmds

\* line 392; verify_config is not called when grub_success is false (line 394)
GrubRegen(w) ==
    /\ Running(w, "grub_regen")
    /\ \E res \in GrubResults :
          LET r == regenerate_config(res)
          IN  /\ cmds' = Append(cmds, Cmd("grub-mkconfig", w, <<>>, res))
              /\ workers' = IF r.raised
                            THEN [workers EXCEPT ![w].pc = "except", ![w].exc = r.exc]
                            ELSE [workers EXCEPT
                                    ![w].pc = IF r.value.ok THEN "verify" ELSE "outcome",
                                    ![w].grub_success = r.value.ok,
                                    ![w].grub_output = r.value.text]
    /\ UNCHANGED <<idle_queue, posted>>

\* line 394, GrubManager.verify_config()
Verify(w) ==
    /\ Running(w, "verify")
    /\ \E file \in CfgFiles :
          /\ cmds' = Append(cmds, [prog |-> "read grub.cfg", w |-> w, arg |-> <<>>,
                                   launched |-> file.readable, rc |-> 0,
                                   out |-> file.content, err |-> <<>>])
          /\ workers' = [workers EXCEPT ![w].pc = "outcome",
                                        ![w].verified = verify_config(file)]
    /\ UNCHANGED <<idle_queue, posted>>

\* lines 394-398
Outcome(w) ==
    /\ Running(w, "outcome")
    /\ Finish(w, grub_outcome(w, workers[w].grub_success, workers[w].verified))
    /\ UNCHANGED cmds

\* lines 403-404
Except(w) ==
    /\ Running(w, "except")
    /\ Finish(w, except_handler(w, workers[w].exc))
    /\ UNCHANGED cmds

Worker(w) ==
    \/ ProgressChecking(w)
    \/ PreList(w)
    \/ TsProgress(w)
    \/ TsKill(w)
    \/ TsRestore(w)
    \/ TsCompleted(w)
    \/ Branch(w)
    \/ PostList(w)
    \/ GrubProgress(w)
    \/ GrubRegen(w)
    \/ Verify(w)
    \/ Outcome(w)
    \/ Except(w)

(***************************************************************************)
(* The main loop dispatches the idle callbacks in the order they were      *)
(* added; each returns False and is removed.                               *)
(***************************************************************************)
_update_status(message) ==
    /\ status_text' = message
    /\ UNCHANGED <<is_restoring, is_restored, button_sensitive, button_label,
                   progress_visible, status_visible>>

_restoration_completed_keeps_restoring ==
    /\ is_restored' = TRUE
    /\ progress_visible' = FALSE
    /\ status_text' = MsgSuccess
    /\ button_sensitive' = TRUE
    /\ button_label' = <<"Restart">>
    /\ UNCHANGED <<is_restoring, status_visible>>

_restoration_completed ==
    /\ is_restoring' = FALSE
    /\ is_restored' = TRUE
    /\ progress_visible' = FALSE
    /\ status_text' = MsgSuccess
    /\ button_sensitive' = TRUE
    /\ button_label' = <<"Restart">>
    /\ UNCHANGED status_visible

_restoration_failed_keeps_restoring(error_message) ==
    /\ progress_visible' = FALSE
    /\ status_text' = Format("Error: ", error_message)
    /\ button_sensitive' = TRUE
    /\ button_label' = <<"Restore System">>
    /\ UNCHANGED <<is_restoring, is_restored, status_visible>>

_restoration_failed(error_message) ==
    /\ is_restoring' = FALSE
    /\ progress_visible' = FALSE
    /\ status_text' = Format("Error: ", error_message)
    /\ button_sensitive' = TRUE
    /\ button_label' = <<"Restore System">>
    /\ UNCHANGED <<is_restored, status_visible>>

Dispatch ==
    /\ app = "active"
    /\ idle_queue # <<>>
    /\ LET cb == Head(idle_queue)
       IN  /\ idle_queue' = Tail(idle_queue)
           /\ delivered' = Append(delivered, cb)
           /\ last_op' = cb.fn
           /\ CASE cb.fn = "_update_status" -> _update_status(cb.arg)
                [] cb.fn = "_restoration_completed" -> _restoration_completed
                [] cb.fn = "_restoration_failed" -> _restoration_failed(cb.arg)
    /\ UNCHANGED <<app, cmdline, snapshot_info, window, dialog, workers, cmds, reboots,
                   console, posted>>

Next ==
    \/ do_activate
    \/ on_restore_clicked
    \/ _on_close_clicked
    \/ dialog_response
    \/ Dispatch
    \/ \E w \in 1..MaxAttempts : Worker(w)

Spec == Init /\ [][Next]_vars

\* The scheduler runs every live thread, and the main loop keeps dispatching
\* its idle sources.
LiveSpec ==
    /\ Spec
    /\ WF_vars(Dispatch)
    /\ \A w \in 1..MaxAttempts : WF_vars(Worker(w))

\* Activation alone, from any of the command lines above: do_activate reads
\* the command line and keeps what get_snapshot_info returns.
ParseInit ==
    /\ cmdline \in ParseLines
    /\ Constructed

ParseSpec == ParseInit /\ [][do_activate]_vars

(***************************************************************************)
(* Properties.                                                             *)
(***************************************************************************)
\* the entries of cmds that thread w made running prog
Entries(prog, w) == {i \in DOMAIN cmds : cmds[i].prog = prog /\ cmds[i].w = w}

ExitedZero(i) == cmds[i].launched /\ cmds[i].rc = 0

\* the step just taken was a click on the restore button
Clicked == last_op' = "on_restore_clicked"

\* thread w is past its call of restore_snapshot
AfterRestoreSnapshot(w) ==
    workers[w].pc \in {"branch", "post_list", "grub_progress", "grub_regen", "verify", "outcome"}

\* C1: restore is not re-entrant: at most one restore thread exists at any
\* time, and a click while is_restoring starts no thread, runs no external
\* command and leaves the orchestrator state unchanged.
C1_NotReentrant ==
    /\ [](Cardinality(LiveThreads) <= 1)
    /\ [][(is_restoring /\ Clicked)
            => UNCHANGED <<workers, cmds, reboots, idle_queue, is_restoring, is_restored,
                           ui, app, dialog>>]_vars

\* a click arrived while a thread was in the middle of its sequence
C1_Witness ==
    /\ is_restoring
    /\ last_op = "on_restore_clicked"
    /\ \E w \in DOMAIN workers : workers[w].pc = "ts_restore"

\* the restore command, the generator and the config check of attempt w all
\* succeeded
AllSucceeded(w) ==
    /\ \E i \in Entries("timeshift", w) : ExitedZero(i)
    /\ \E i \in Entries("grub-mkconfig", w) : ExitedZero(i)
    /\ \E i \in Entries("read grub.cfg", w) :
          cmds[i].launched /\ Contains(cmds[i].out, SubvolMarker)

\* C2: the orchestrator is Completed, or a completion is on its way to the
\* interactive thread, only if in that attempt timeshift exited 0,
\* grub-mkconfig exited 0 and grub.cfg was read and holds rootflags=subvol=.
C2_CompletedOnlyIfAllSucceeded ==
    /\ is_restored => (workers # <<>> /\ AllSucceeded(Len(workers)))
    /\ \A k \in DOMAIN idle_queue :
          idle_queue[k].fn = "_restoration_completed" => AllSucceeded(idle_queue[k].w)

C2_Witness == is_restored /\ ~is_restoring /\ AllSucceeded(Len(workers))

\* C3: once Completed, every click invokes reboot exactly once and starts no
\* restore, and no step runs another external command of the restore
\* sequence.
C3_CompletedClickReboots ==
    /\ [][(is_restored /\ Clicked)
            => /\ reboots' = reboots + 1
               /\ UNCHANGED <<workers, is_restoring, is_restored>>]_vars
    /\ [][is_restored => /\ cmds' = cmds
                         /\ workers' = workers
                         /\ is_restored']_vars

\* the reboot command was invoked by two clicks after Completed
C3_Witness == is_restored /\ reboots = 2 /\ last_op = "on_restore_clicked"

\* C4: restore_snapshot returns success exactly when the timeshift process
\* exited with code 0; its output is then the captured stdout, and for any
\* other exit code the captured stderr.
C4_RestoreResult ==
    \A w \in DOMAIN workers :
        AfterRestoreSnapshot(w) =>
            /\ workers[w].success <=> \E i \in Entries("timeshift", w) : ExitedZero(i)
            /\ \A i \in Entries("timeshift", w) :
                  cmds[i].launched =>
                      workers[w].output = IF cmds[i].rc = 0 THEN cmds[i].out ELSE cmds[i].err

\* restore_snapshot returned after timeshift was killed by a signal
C4_Witness ==
    \E w \in DOMAIN workers :
        /\ workers[w].pc = "branch"
        /\ ~workers[w].success
        /\ workers[w].output = TimeshiftStderr
        /\ \E i \in Entries("timeshift", w) : cmds[i].launched /\ cmds[i].rc = -9

\* the generator of attempt w failed, or the config check did
RegenerationFailed(w) ==
    \/ \E i \in Entries("grub-mkconfig", w) : ~ExitedZero(i)
    \/ \E i \in Entries("read grub.cfg", w) :
          ~(cmds[i].launched /\ Contains(cmds[i].out, SubvolMarker))

\* C5: when the restore succeeded and the regeneration or the verification
\* failed, the failure carries the fixed message.
C5_FixedMessage ==
    \A k \in DOMAIN idle_queue :
        LET cb == idle_queue[k]
        IN  (/\ cb.fn = "_restoration_failed"
             /\ \E i \in Entries("timeshift", cb.w) : ExitedZero(i)
             /\ RegenerationFailed(cb.w))
            => cb.arg = MsgGrubFailed

\* The terminal callback of an attempt whose subvolume listings both worked,
\* from what killall, timeshift, grub-mkconfig and the read of grub.cfg did.
ExpectedOutcome(w) ==
    LET K == Entries("killall", w)
        T == Entries("timeshift", w)
        G == Entries("grub-mkconfig", w)
    IN  IF \E i \in K : ~cmds[i].launched
        THEN restore_failed(w, LaunchError("'killall'"))
        ELSE IF \E i \in T : ~cmds[i].launched
        THEN restore_failed(w, LaunchError("'timeshift'"))
        ELSE IF \E i \in T : cmds[i].rc # 0
        THEN restore_failed(w, cmds[CHOOSE i \in T : TRUE].err)
        ELSE IF \E i \in G : ~cmds[i].launched
        THEN except_handler(w, LaunchError("'grub-mkconfig'"))
        ELSE IF AllSucceeded(w)
        THEN <<Callback("_restoration_completed", <<>>, w)>>
        ELSE <<Callback("_restoration_failed", MsgGrubFailed, w)>>

\* C6: the terminal notification of an attempt, and which of killall,
\* timeshift and grub-mkconfig it ran, do not depend on what the two
\* subvolume listings did: killall always ran, timeshift ran if killall
\* could be launched, grub-mkconfig ran if timeshift exited 0, and the
\* notification is the one these commands determine.
C6_OutcomeIndependentOfInspector ==
    \A k \in DOMAIN idle_queue :
        LET cb == idle_queue[k]
        IN  cb.fn # "_update_status" =>
                /\ Entries("killall", cb.w) # {}
                /\ (\A i \in Entries("killall", cb.w) : cmds[i].launched)
                      => Entries("timeshift", cb.w) # {}
                /\ (\E i \in Entries("timeshift", cb.w) : ExitedZero(i))
                      => Entries("grub-mkconfig", cb.w) # {}
                /\ <<cb>> = ExpectedOutcome(cb.w)

\* C7: no failure of an external command leaves list_subvolumes or
\* regenerate_config as an exception: the thread never lands in the except
\* clause of _restore_thread.
C7_NoExceptionEscapes ==
    \A w \in DOMAIN workers : workers[w].pc # "except"

\* C8: whatever killall did, restore_snapshot went on to launch timeshift,
\* and its result is the one timeshift's exit code determines.
C8_KillBestEffort ==
    \A w \in DOMAIN workers :
        AfterRestoreSnapshot(w) =>
            /\ Entries("timeshift", w) # {}
            /\ workers[w].success <=> \E i \in Entries("timeshift", w) : ExitedZero(i)

\* C9: a failure leaves the orchestrator retryable (not restoring, button
\* enabled); a click in that state enters Restoring and starts a thread at
\* the top of the same sequence; every timeshift run, of the first attempt
\* and of each retry, is given the parsed snapshot name; and while attempts
\* remain within the bound the click is enabled.
C9_RetryFromFailed ==
    /\ [][last_op' = "_restoration_failed"
            => (~is_restoring' /\ ~is_restored' /\ button_sensitive')]_vars
    /\ [][(~is_restoring /\ ~is_restored /\ Clicked)
            => /\ is_restoring'
               /\ workers' = Append(workers, NewThread)
               /\ snapshot_info' = snapshot_info]_vars
    /\ [](\A i \in DOMAIN cmds :
            cmds[i].prog = "timeshift"
                => snapshot_info.parsed /\ cmds[i].arg = snapshot_info.name)
    /\ []((/\ app = "active"
           /\ last_op = "_restoration_failed"
           /\ Len(workers) < MaxAttempts)
          => ENABLED on_restore_clicked)

\* the second retry is running timeshift with the parsed name
C9_Witness ==
    /\ Len(workers) = 3
    /\ is_restoring
    /\ \E i \in Entries("timeshift", 3) : cmds[i].arg = snapshot_info.name

\* C10: every attempt that enters Restoring leaves it, with the button
\* enabled again, unless the application itself was closed meanwhile.
C10_LeavesRestoring ==
    is_restoring ~> ((~is_restoring /\ button_sensitive) \/ app # "active")

\* an attempt ended in Failed because a command could not be launched
C10_Witness ==
    /\ ~is_restoring
    /\ button_sensitive
    /\ last_op = "_restoration_failed"
    /\ \E i \in DOMAIN cmds : ~cmds[i].launched

\* C11: the callbacks of an attempt reach the interactive thread in the
\* order the thread posted them, none lost and none twice: what was
\* dispatched, followed by what is still queued, is what was posted.
C11_ProgressInOrder == delivered \o idle_queue = posted

\* two messages were applied while two more were waiting
C11_Witness ==
    /\ Len(delivered) >= 2
    /\ Len(idle_queue) >= 2
    /\ delivered[1].arg = MsgChecking
    /\ delivered[2].arg = MsgStarting

\* startup was aborted: the application quit without ever creating its window
StartupAborted == app = "quit" /\ ~window

\* C12: when detection fails at startup the application quits after showing
\* the user a message, with no window, no restore thread and no external
\* command.
C12_StartupAbortVisible ==
    StartupAborted =>
        /\ console # <<>>
        /\ workers = <<>>
        /\ cmds = <<>>
        /\ reboots = 0

\* C13: a reboot failure after Completed shows a dialog and leaves the
\* process running and Completed, also once the dialog is dismissed.
C13_RebootFailureKeepsAppAlive ==
    /\ [][(is_restored /\ Clicked /\ dialog'.shown)
            => (app' = "active" /\ is_restored')]_vars
    /\ [][(is_restored /\ dialog.shown /\ last_op' = "dialog_response")
            => (app' = "active" /\ is_restored')]_vars

\* C14: the parsed snapshot_info is never changed, and every timeshift run,
\* in the first attempt and in each retry, is given its name (the segment
\* parsed from the command line) after --snapshot.
C14_NameIsSoleKey ==
    /\ [][snapshot_info.parsed => snapshot_info' = snapshot_info]_vars
    /\ [](\A i \in DOMAIN cmds :
            cmds[i].prog = "timeshift"
                => /\ snapshot_info.parsed
                   /\ cmds[i].arg = snapshot_info.name
                   /\ cmds[i].arg \in {Name1, Name2})
    /\ [](app = "active" => snapshot_info.parsed)

\* a retry ran timeshift for the second boot's snapshot
C14_Witness ==
    /\ Len(workers) = 2
    /\ snapshot_info.name = Name2
    /\ \E i \in Entries("timeshift", 2) : cmds[i].arg = Name2 /\ cmds[i].launched


(***************************************************************************)
(* get_snapshot_info on its own (ParseSpec).                               *)
(***************************************************************************)
Activated == app # "constructed"

Expected42 ==
    [name |-> Name1,
     path |-> Path42,
     date |-> <<"1", "1", "/", "0", "8", "/", "2", "0", "2", "5">>,
     time |-> <<"2", "3", ":", "0", "0", ":", "0", "0">>,
     parsed |-> TRUE]

\* the first occurrence of key in s that is followed by a character outside
\* stop is followed by exactly v, and v ends at a character of stop or at the
\* end of s
FirstValueIs(s, key, stop, v) ==
    \E i \in 1..Len(s) :
        /\ MatchAt(s, i, key \o v)
        /\ \A k \in 1..Len(v) : v[k] \notin stop
        /\ (i + Len(key) + Len(v) > Len(s) \/ s[i + Len(key) + Len(v)] \in stop)
        /\ \A j \in 1..(i - 1) :
               ~(MatchAt(s, j, key) /\ j + Len(key) <= Len(s)
                                    /\ s[j + Len(key)] \notin stop)

ExampleIsFirst ==
    /\ cmdline # Unreadable
    /\ FirstValueIs(strip(cmdline), SubvolKey, Whitespace, Path42)
    /\ FirstValueIs(strip(cmdline), SnapshotsMarker \o <<"/">>,
                    Whitespace \cup {"/", "@"}, Name1)

\* C15 as stated: every command line that contains
\* 'timeshift-btrfs/snapshots/2025-08-11_23-00-00' and
\* 'subvol=/@/.snapshots/42/snapshot', wherever they sit and whatever
\* surrounds them, gives name 2025-08-11_23-00-00, path
\* /@/.snapshots/42/snapshot, date 11/08/2025 and time 23:00:00.
C15_AnyLineWithBoth ==
    (/\ Activated
     /\ cmdline # Unreadable
     /\ HasSubstring(cmdline, SnapshotRef)
     /\ HasSubstring(cmdline, SubvolRef))
        => snapshot_info = Expected42

\* C15 amended: when the first subvol= parameter of the line is exactly
\* /@/.snapshots/42/snapshot (ending at whitespace or the end of the line) and
\* the first timeshift-btrfs/snapshots/ segment is exactly 2025-08-11_23-00-00
\* (ending at '/', '@', whitespace or the end of the line), the result is name
\* 2025-08-11_23-00-00, path /@/.snapshots/42/snapshot, date 11/08/2025 and
\* time 23:00:00, whatever else the line holds.
C15_FirstParametersDecide ==
    (Activated /\ ExampleIsFirst) => snapshot_info = Expected42

C15_Witness ==
    /\ app = "active"
    /\ ExampleIsFirst
    /\ snapshot_info = Expected42
    /\ MatchAt(cmdline, 1, LeadPlain \o SubvolRef \o MidQuiet \o SnapshotRef \o TrailSub)

\* the piece of a snapshot name before its first underscore
DateToken(name) == split(name, "_")[1]

\* YYYY-MM-DD: four digits, hyphen, two digits, hyphen, two digits
ExactDate(t) ==
    /\ Len(t) = 10
    /\ \A i \in {1, 2, 3, 4, 6, 7, 9, 10} : IsDigit(t[i])
    /\ t[5] = "-" /\ t[8] = "-"

\* the snapshot directory name the line carries, if any
SegmentOf(cl) ==
    re_search(strip(cl), SnapshotsMarker \o <<"/">>, Whitespace \cup {"/", "@"})

\* C16: get_snapshot_info returns null whenever the date token of the snapshot
\* name is not exactly YYYY-MM-DD, and returns a SnapshotInfo only when the
\* token is a four-digit year, a two-digit month and a two-digit day separated
\* by hyphens.
C16_NullUnlessExactDate ==
    (Activated /\ cmdline # Unreadable /\ SegmentOf(cmdline).matched)
        => /\ ~ExactDate(DateToken(SegmentOf(cmdline).group)) => snapshot_info = None
           /\ snapshot_info.parsed => ExactDate(DateToken(snapshot_info.name))


(***************************************************************************)
(* The commands of one attempt.                                            *)
(***************************************************************************)
CommandOrder ==
    <<"btrfs", "killall", "timeshift", "btrfs", "grub-mkconfig", "read grub.cfg">>

\* C17: within one attempt the external commands run one after another in the
\* order subvolume list, kill of the snapshot-manager UI, restore, subvolume
\* list, boot-config generator, read of the generated config; the generator
\* runs only after the restore command of the attempt exited with code 0 and
\* the config is read only after the generator exited with code 0.
C17_CommandsInOrder ==
    /\ [](/\ Len(cmds) <= Len(CommandOrder)
          /\ \A i \in DOMAIN cmds :
                /\ cmds[i].prog = CommandOrder[i]
                /\ cmds[i].w = Len(workers)
                /\ cmds[i].prog = "grub-mkconfig"
                      => \E j \in 1..(i - 1) :
                            cmds[j].prog = "timeshift" /\ ExitedZero(j)
                /\ cmds[i].prog = "read grub.cfg"
                      => \E j \in 1..(i - 1) :
                            cmds[j].prog = "grub-mkconfig" /\ ExitedZero(j))
    /\ [][\/ cmds' = cmds
          \/ cmds' = <<>> /\ Len(workers') = Len(workers) + 1
          \/ /\ Len(cmds') = Len(cmds) + 1
             /\ SubSeq(cmds', 1, Len(cmds)) = cmds
             /\ last_op' = "_restore_thread"]_vars

C17_Witness ==
    /\ Len(cmds) = 6
    /\ Len(workers) = 2
    /\ workers[2].pc = "outcome"


(***************************************************************************)
(* Who writes the shared fields.                                           *)
(***************************************************************************)
InteractiveWriters ==
    {"do_activate", "on_restore_clicked", "_restoration_completed", "_restoration_failed"}

\* C18: is_restoring, is_restored and the SnapshotInfo are written only by
\* steps of the interactive thread (activation, the confirm handler and the
\* callbacks marshalled from the worker); a step of the worker thread never
\* writes any of them.
C18_WorkerNeverWrites ==
    /\ [][last_op' = "_restore_thread"
            => UNCHANGED <<is_restoring, is_restored, snapshot_info>>]_vars
    /\ [][<<is_restoring, is_restored, snapshot_info>>'
              # <<is_restoring, is_restored, snapshot_info>>
            => last_op' \in InteractiveWriters]_vars

C18_Witness ==
    /\ last_op = "_restore_thread"
    /\ is_restoring
    /\ \E i \in Entries("timeshift", Len(workers)) : cmds[i].arg = snapshot_info.name
    /\ workers[Len(workers)].pc = "outcome"


(***************************************************************************)
(* The notifications of one attempt.  posted and delivered hold the idle   *)
(* callbacks of the current attempt, added and dispatched so far.          *)
(***************************************************************************)
Terminal(cb) == cb.fn \in {"_restoration_completed", "_restoration_failed"}

CurrentAttempt == Len(workers)

\* C19: each attempt posts exactly one terminal notification (completed or
\* failed), after every progress message of the attempt; the callbacks are
\* applied in that order, so no progress message is applied after the terminal
\* one, and nothing of an earlier attempt is pending or applied once the next
\* attempt has started.
C19_OneTerminalLast ==
    /\ \A i \in DOMAIN posted :
          /\ Terminal(posted[i]) => i = Len(posted)
          /\ posted[i].w = CurrentAttempt
    /\ \A i \in DOMAIN delivered :
          /\ Terminal(delivered[i]) => (i = Len(delivered) /\ idle_queue = <<>>)
          /\ delivered[i].w = CurrentAttempt
    /\ \A i \in DOMAIN idle_queue : idle_queue[i].w = CurrentAttempt
    /\ Len(delivered) + Len(idle_queue) = Len(posted)
    /\ \A k \in DOMAIN delivered : delivered[k] = posted[k]
    /\ \A w \in DOMAIN workers :
          workers[w] = Finished
              => \/ w < CurrentAttempt
                 \/ posted # <<>> /\ Terminal(posted[Len(posted)])
    /\ \A w \in DOMAIN workers : w < CurrentAttempt => workers[w] = Finished

C19_Witness ==
    /\ CurrentAttempt = 2
    /\ Len(delivered) >= 5
    /\ delivered[Len(delivered)].fn = "_restoration_completed"
    /\ delivered[1].arg = MsgChecking
    /\ status_text = MsgSuccess


\* C20: is_restoring and is_restored are never both true, and is_restored is
\* monotonic: no confirm, progress, completion or failure step resets it once
\* it is true.
C20_FlagsExclusiveRestoredMonotonic ==
    /\ [](~(is_restoring /\ is_restored))
    /\ [][is_restored => is_restored']_vars

C20_Witness ==
    /\ is_restored
    /\ ~is_restoring
    /\ CurrentAttempt = 2
    /\ reboots = 1
    /\ last_op = "on_restore_clicked"

=============================================================================
